---- MODULE Spec2Model ----
(***************************************************************************)
(* Model of the spreadsheet ingestion and column-analysis pipeline of      *)
(* src/src/utils/excelProcessor.js: processExcelFile, validateExcelData    *)
(* and getColumnStatistics, and of the request handlers of the auth and    *)
(* excel routers that use them.  The three functions are pure; for them    *)
(* the state of the model is the invocation made (its arguments) and the   *)
(* value it returned.  For the request handlers the state is the content   *)
(* of the User, ExcelFile and Graph collections, the tokens issued, the    *)
(* requests in flight and the response last sent.                          *)
(***************************************************************************)
EXTENDS Integers, Sequences, FiniteSets, TLC

VARIABLES fn, buffer, data, columnName, result, validations, statistics,
          users, tokens, files, graphs, nextId, inflight, response

callVars == <<fn, buffer, data, columnName, result, validations, statistics>>
serverVars == <<users, tokens, files, graphs, nextId, inflight, response>>

vars == <<fn, buffer, data, columnName, result, validations, statistics,
          users, tokens, files, graphs, nextId, inflight, response>>

(***************************************************************************)
(* Bounds of the model.                                                    *)
(***************************************************************************)
MaxRows == 3
MaxSheets == 2
MaxSheetRows == 2
MaxUsers == 3
MaxFiles == 1
MaxGraphs == 1
MaxInflight == 2

(***************************************************************************)
(* JavaScript numbers.  A number is finite (the exact quotient n/d, d = 1  *)
(* for every input of the model), +Infinity, -Infinity or NaN.  Finite     *)
(* arithmetic is exact here; IEEE-754 rounding of a quotient is not        *)
(* modelled, so nothing below is allowed to depend on it.                  *)
(***************************************************************************)
Fin(n) == [k |-> "fin", n |-> n, d |-> 1]
PosInf == [k |-> "inf", n |-> 0, d |-> 1]
NegInf == [k |-> "ninf", n |-> 0, d |-> 1]
NaN == [k |-> "nan", n |-> 0, d |-> 1]

Abs(n) == IF n < 0 THEN -n ELSE n

RECURSIVE GCD(_, _)
GCD(a, b) == IF b = 0 THEN a ELSE GCD(b, a % b)

\* the finite number n/d (d > 0) in lowest terms
Rat(n, d) ==
  LET g == GCD(Abs(n), d)
  IN [k |-> "fin", n |-> n \div g, d |-> d \div g]

\* a + b
Add(a, b) ==
  CASE a.k = "nan" \/ b.k = "nan" -> NaN
    [] a.k = "fin" /\ b.k = "fin" -> Rat(a.n * b.d + b.n * a.d, a.d * b.d)
    [] a.k = "fin" -> b
    [] b.k = "fin" -> a
    [] a.k = b.k -> a
    [] OTHER -> NaN

\* a / c for an array length c
Div(a, c) ==
  CASE a.k = "fin" /\ c > 0 -> Rat(a.n, a.d * c)
    [] a.k = "fin" /\ a.n = 0 -> NaN
    [] a.k = "fin" /\ a.n > 0 -> PosInf
    [] a.k = "fin" -> NegInf
    [] OTHER -> a

\* a * c for an array length c
Mul(a, c) ==
  CASE a.k = "fin" -> Rat(a.n * c, a.d)
    [] a.k = "nan" \/ c = 0 -> NaN
    [] OTHER -> a

\* a <= b (false when either side is NaN)
Leq(a, b) ==
  /\ a.k # "nan"
  /\ b.k # "nan"
  /\ \/ a.k = "ninf"
     \/ b.k = "inf"
     \/ a.k = "fin" /\ b.k = "fin" /\ a.n * b.d <= b.n * a.d

\* a === b on numbers (NaN equals nothing)
NumEq(a, b) == a.k # "nan" /\ b.k # "nan" /\ a = b

(***************************************************************************)
(* Cell values: the dynamic values a row record can hold.  t is the        *)
(* result of typeof.                                                       *)
(***************************************************************************)
CellNumber(x) == [t |-> "number", num |-> x, s |-> "", b |-> FALSE]
CellString(s) == [t |-> "string", num |-> NaN, s |-> s, b |-> FALSE]
CellBoolean(b) == [t |-> "boolean", num |-> NaN, s |-> "", b |-> b]
Undefined == [t |-> "undefined", num |-> NaN, s |-> "", b |-> FALSE]
Null == [t |-> "object", num |-> NaN, s |-> "", b |-> FALSE]

\* StringToNumber on the strings of the model: the empty string is 0, a
\* numeric literal is its value, anything else is NaN
StringToNumber(s) ==
  CASE s = "" -> Fin(0)
    [] s = "2" -> Fin(2)
    [] s = "Infinity" -> PosInf
    [] s = "-Infinity" -> NegInf
    [] OTHER -> NaN

\* Number(val)
ToNumber(val) ==
  CASE val.t = "undefined" -> NaN
    [] val.t = "object" -> Fin(0)
    [] val.t = "boolean" -> IF val.b THEN Fin(1) ELSE Fin(0)
    [] val.t = "number" -> val.num
    [] OTHER -> StringToNumber(val.s)

\* isNaN(val): coerces, then tests
IsNaN(val) == ToNumber(val).k = "nan"

(***************************************************************************)
(* Row records: an object is its ordered list of own properties.           *)
(***************************************************************************)
Prop(key, val) == [k |-> key, v |-> val]

\* a reference that may be undefined (data[0] of an empty array)
Ref(obj) == [def |-> TRUE, obj |-> obj]
UndefinedRef == [def |-> FALSE, obj |-> <<>>]

\* data[i], i counted from 0
At(arr, i) == IF i + 1 <= Len(arr) THEN Ref(arr[i + 1]) ELSE UndefinedRef

\* x || {}
OrEmptyNoGuard(r) == r

OrEmpty(r) == IF r.def THEN r ELSE Ref(<<>>)

\* outcome of a call: a value, or an exception with its message
Return(value) == [threw |-> FALSE, message |-> "", value |-> value]
Throw(message) == [threw |-> TRUE, message |-> message, value |-> <<>>]

\* Object.keys(x): TypeError on undefined
ObjectKeys(r) ==
  IF r.def
  THEN Return([i \in 1..Len(r.obj) |-> r.obj[i].k])
  ELSE Throw("Cannot convert undefined or null to object")

\* row[key]; undefined when the row has no such property
Get(row, key) ==
  IF \E i \in 1..Len(row) : row[i].k = key
  THEN row[CHOOSE i \in 1..Len(row) : row[i].k = key].v
  ELSE Undefined

(***************************************************************************)
(* validateExcelData (excelProcessor.js:51-66).                            *)
(***************************************************************************)
\* data.length > 0
HasDataSkippingFirstRow(d) == Len(d) > 1

HasData(d) == Len(d) > 0

\* the set of the names in a key list
KeySet(keys) == {keys[i] : i \in 1..Len(keys)}

\* row => Object.keys(row).length === firstRowKeys.length
RowMatchesByName(row, firstRowKeys) ==
  KeySet(ObjectKeys(Ref(row)).value) = KeySet(firstRowKeys)

RowMatches(row, firstRowKeys) ==
  Len(ObjectKeys(Ref(row)).value) = Len(firstRowKeys)

validateExcelData(d) ==
  LET headerKeys == ObjectKeys(OrEmpty(At(d, 0)))
  IN IF headerKeys.threw
     THEN headerKeys
     ELSE LET initial == [hasData |-> HasData(d),
                          hasHeaders |-> Len(headerKeys.value) > 0,
                          isConsistent |-> TRUE]
          IN IF Len(d) > 1
             THEN LET firstRowKeys == ObjectKeys(At(d, 0))
                  IN IF firstRowKeys.threw
                     THEN firstRowKeys
                     ELSE Return([initial EXCEPT !.isConsistent =
                            \A i \in 1..Len(d) :
                              RowMatches(d[i], firstRowKeys.value)])
             ELSE Return(initial)

(***************************************************************************)
(* getColumnStatistics (excelProcessor.js:68-91).                          *)
(***************************************************************************)
\* data.map(row => row[columnName]).filter(val => val !== undefined)
ColumnValuesTruthy(d, c) ==
  SelectSeq([i \in 1..Len(d) |-> Get(d[i], c)],
            LAMBDA val : /\ val # Undefined
                         /\ val # Null
                         /\ val # CellString("")
                         /\ val # CellBoolean(FALSE)
                         /\ val # CellNumber(Fin(0))
                         /\ val # CellNumber(NaN))

ColumnValues(d, c) ==
  SelectSeq([i \in 1..Len(d) |-> Get(d[i], c)], LAMBDA val : val # Undefined)

\* values.every(val => !isNaN(val))
IsNumericSome(values) == \E i \in 1..Len(values) : ~IsNaN(values[i])

IsNumeric(values) == \A i \in 1..Len(values) : ~IsNaN(values[i])

\* Math.min(...numbers): NaN if any argument is, +Infinity without arguments
RECURSIVE MinFrom(_, _, _)
MinFrom(numbers, i, acc) ==
  IF i > Len(numbers) THEN acc
  ELSE IF numbers[i].k = "nan" \/ acc.k = "nan" THEN NaN
  ELSE MinFrom(numbers, i + 1, IF Leq(numbers[i], acc) THEN numbers[i] ELSE acc)

MathMinFirst(numbers) == IF Len(numbers) = 0 THEN PosInf ELSE numbers[1]

MathMin(numbers) == MinFrom(numbers, 1, PosInf)

\* Math.max(...numbers)
RECURSIVE MaxFrom(_, _, _)
MaxFrom(numbers, i, acc) ==
  IF i > Len(numbers) THEN acc
  ELSE IF numbers[i].k = "nan" \/ acc.k = "nan" THEN NaN
  ELSE MaxFrom(numbers, i + 1, IF Leq(acc, numbers[i]) THEN numbers[i] ELSE acc)

MathMax(numbers) == MaxFrom(numbers, 1, NegInf)

\* numbers.reduce((a, b) => a + b, 0)
RECURSIVE ReduceAdd(_, _, _)
ReduceAdd(numbers, i, acc) ==
  IF i > Len(numbers) THEN acc
  ELSE ReduceAdd(numbers, i + 1, Add(acc, numbers[i]))

SumOf(numbers) == ReduceAdd(numbers, 1, Fin(0))

\* [...new Set(values)]: first occurrences, in order
RECURSIVE UniqueFrom(_, _, _)
UniqueFrom(values, i, acc) ==
  IF i > Len(values) THEN acc
  ELSE UniqueFrom(values, i + 1,
         IF \E j \in 1..Len(acc) : acc[j] = values[i]
         THEN acc ELSE Append(acc, values[i]))

UniqueValues(values) == UniqueFrom(values, 1, <<>>)

NumericStatistics(values) ==
  LET numbers == [i \in 1..Len(values) |-> ToNumber(values[i])]
  IN [min |-> MathMin(numbers),
      max |-> MathMax(numbers),
      average |-> Div(SumOf(numbers), Len(numbers)),
      sum |-> SumOf(numbers),
      count |-> Len(numbers)]

CategoricalStatisticsCountingUnique(values) ==
  [uniqueValues |-> UniqueValues(values),
   count |-> Len(UniqueValues(values)),
   type |-> "categorical"]

CategoricalStatistics(values) ==
  [uniqueValues |-> UniqueValues(values),
   count |-> Len(values),
   type |-> "categorical"]

getColumnStatistics(d, c) ==
  LET values == ColumnValues(d, c)
  IN IF Len(values) = 0 THEN Null
     ELSE IF IsNumeric(values) THEN NumericStatistics(values)
     ELSE CategoricalStatistics(values)

(***************************************************************************)
(* processExcelFile (excelProcessor.js:3-49).  The xlsx library is not     *)
(* part of the repository: an uploaded buffer is modelled by what          *)
(* xlsx.read makes of it (an exception, or a workbook with its ordered     *)
(* sheet names) and by what xlsx.utils.sheet_to_json makes of each of its  *)
(* worksheets (an exception, or the row records).                          *)
(***************************************************************************)
Worksheet(rows) == [unreadable |-> FALSE, message |-> "", rows |-> rows]
BadWorksheet(message) == [unreadable |-> TRUE, message |-> message, rows |-> <<>>]

\* xlsx.read(buffer, { type: 'buffer' })
XlsxRead(buf) ==
  IF buf.corrupt
  THEN Throw(buf.message)
  ELSE Return([SheetNames |-> buf.SheetNames, Sheets |-> buf.Sheets])

\* xlsx.utils.sheet_to_json(worksheet)
SheetToJson(worksheet) ==
  IF worksheet.unreadable
  THEN Throw(worksheet.message)
  ELSE Return(worksheet.rows)

\* the body of the map callback, after the conversion to JSON
NormalizeSheetWidestRow(sheetName, jsonData) ==
  LET headers == ObjectKeys(OrEmpty(At(jsonData, 0))).value
      widest == CHOOSE n \in 0..10 :
                  /\ \A i \in 1..Len(jsonData) : Len(jsonData[i]) <= n
                  /\ n = 0 \/ \E i \in 1..Len(jsonData) : Len(jsonData[i]) = n
  IN [sheetName |-> sheetName,
      headers |-> headers,
      columnTypes |-> [h \in KeySet(headers) |-> Get(jsonData[1], h).t],
      data |-> jsonData,
      rowCount |-> Len(jsonData),
      columnCount |-> widest]

\* the keys of the rows from row i on that are not in acc, appended to acc
RECURSIVE KeysOfAllRows(_, _, _)
KeysOfAllRows(jsonData, i, acc) ==
  IF i > Len(jsonData) THEN acc
  ELSE LET keys == ObjectKeys(Ref(jsonData[i])).value
           fresh == SelectSeq(keys, LAMBDA key : key \notin KeySet(acc))
       IN KeysOfAllRows(jsonData, i + 1, acc \o fresh)

NormalizeSheetAllRowKeys(sheetName, jsonData) ==
  LET headers == KeysOfAllRows(jsonData, 1, <<>>)
  IN [sheetName |-> sheetName,
      headers |-> headers,
      columnTypes |-> [header \in KeySet(headers) |->
                         Get(jsonData[1], header).t],
      data |-> jsonData,
      rowCount |-> Len(jsonData),
      columnCount |-> Len(headers)]

NormalizeSheet(sheetName, jsonData) ==
  LET headers == ObjectKeys(OrEmpty(At(jsonData, 0))).value
      sampleValue(header) ==
        IF At(jsonData, 0).def THEN Get(jsonData[1], header) ELSE Undefined
  IN [sheetName |-> sheetName,
      headers |-> headers,
      columnTypes |-> [header \in KeySet(headers) |-> sampleValue(header).t],
      data |-> jsonData,
      rowCount |-> Len(jsonData),
      columnCount |-> Len(headers)]

\* sheetNames.map(...): the sheets in order; the first conversion that
\* throws ends the map
RECURSIVE MapSheets(_, _, _)
MapSheets(workbook, i, acc) ==
  IF i > Len(workbook.SheetNames) THEN Return(acc)
  ELSE LET sheetName == workbook.SheetNames[i]
           jsonData == SheetToJson(workbook.Sheets[sheetName])
       IN IF jsonData.threw
          THEN jsonData
          ELSE MapSheets(workbook, i + 1,
                 Append(acc, NormalizeSheet(sheetName, jsonData.value)))

\* the outcome of the call: what is returned, or an exception that escapes
processExcelFileSkippingEmpty(buf) ==
  LET workbook == XlsxRead(buf)
  IN IF workbook.threw
     THEN Return([success |-> FALSE, error |-> workbook.message])
     ELSE LET processedData == MapSheets(workbook.value, 1, <<>>)
          IN IF processedData.threw
             THEN Return([success |-> FALSE, error |-> processedData.message])
             ELSE LET kept == SelectSeq(processedData.value,
                                        LAMBDA sh : sh.rowCount > 0)
                  IN Return([success |-> TRUE,
                             data |-> kept,
                             totalSheets |-> Len(kept)])

processExcelFileNarrowTry(buf) ==
  LET workbook == XlsxRead(buf)
  IN IF workbook.threw
     THEN Return([success |-> FALSE, error |-> workbook.message])
     ELSE LET processedData == MapSheets(workbook.value, 1, <<>>)
          IN IF processedData.threw
             THEN processedData
             ELSE Return([success |-> TRUE,
                          data |-> processedData.value,
                          totalSheets |-> Len(workbook.value.SheetNames)])

processExcelFile(buf) ==
  LET workbook == XlsxRead(buf)
  IN IF workbook.threw
     THEN Return([success |-> FALSE, error |-> workbook.message])
     ELSE LET processedData == MapSheets(workbook.value, 1, <<>>)
          IN IF processedData.threw
             THEN Return([success |-> FALSE, error |-> processedData.message])
             ELSE Return([success |-> TRUE,
                          data |-> processedData.value,
                          totalSheets |-> Len(workbook.value.SheetNames)])

(***************************************************************************)
(* The inputs of the model.                                                *)
(***************************************************************************)
\* the sequences over S of length at most n
SeqsUpTo(S, n) == UNION {[1..m -> S] : m \in 0..n}

\* the values of one cell of the analysed column
Cells ==
  {CellNumber(Fin(1)), CellNumber(Fin(2)), CellNumber(Fin(3)), CellNumber(NaN),
   CellString("a"), CellString("b"), CellString("x"), CellString("2"),
   CellString(""), CellString("Infinity"), CellString("-Infinity"),
   CellBoolean(TRUE), Null, Undefined}

\* row records: no key, the column "a" alone, and rows that differ in their
\* number, names and order of keys
Rows ==
  {<<>>}
  \cup {<<Prop("a", v)>> : v \in Cells}
  \cup {<<Prop("b", CellNumber(Fin(1)))>>,
        <<Prop("a", CellNumber(Fin(1))), Prop("b", CellString("x"))>>,
        <<Prop("b", CellNumber(Fin(2))), Prop("a", CellString("x"))>>}

ColumnNames == {"a", "b"}

\* row records as sheet_to_json makes them
SheetRows ==
  {<<>>,
   <<Prop("a", CellNumber(Fin(1)))>>,
   <<Prop("b", CellString("x")), Prop("a", CellBoolean(TRUE))>>}

SheetNameOf(i) ==
  CASE i = 1 -> "Sheet1"
    [] i = 2 -> "Data"
    [] i = 3 -> "Summary"
    [] OTHER -> "Sheet"

AllSheetNames == {SheetNameOf(i) : i \in 1..MaxSheets}

ParserMessages == {"File is password-protected", "Unsupported file"}

Worksheets ==
  {Worksheet(rows) : rows \in SeqsUpTo(SheetRows, MaxSheetRows)}
  \cup {BadWorksheet(m) : m \in {"Bad range", "Unsupported cell"}}

\* the ordered lists of distinct sheet names
SheetNameLists ==
  {names \in SeqsUpTo(AllSheetNames, MaxSheets) :
     \A i, j \in 1..Len(names) : i # j => names[i] # names[j]}

NoBuffer == [corrupt |-> TRUE, message |-> "", SheetNames |-> <<>>,
             Sheets |-> <<>>]

CorruptBuffer(m) ==
  [corrupt |-> TRUE, message |-> m, SheetNames |-> <<>>, Sheets |-> <<>>]

Workbook(names, sheets) ==
  [corrupt |-> FALSE, message |-> "", SheetNames |-> names, Sheets |-> sheets]

(***************************************************************************)
(* The state machine: one invocation of one of the three functions.        *)
(***************************************************************************)
NoReturn == [threw |-> FALSE, message |-> "pending", value |-> <<>>]

\* no request has been answered yet
NoResponse == [kind |-> "none", status |-> 0]

\* the server before any document is stored and any request is made
ServerEmpty ==
  /\ users = {}
  /\ tokens = {}
  /\ files = {}
  /\ graphs = {}
  /\ nextId = [user |-> 1, file |-> 1, graph |-> 1]
  /\ inflight = {}
  /\ response = NoResponse

\* no function of the pipeline is being called on its own
NoCall ==
  /\ fn = "none"
  /\ buffer = NoBuffer
  /\ data = <<>>
  /\ columnName = ""
  /\ result = NoReturn
  /\ validations = NoReturn
  /\ statistics = NoReturn

Init ==
  /\ ServerEmpty
  /\ result = NoReturn
  /\ validations = NoReturn
  /\ statistics = NoReturn
  /\ \/ /\ fn = "processExcelFile"
        /\ \/ \E m \in ParserMessages : buffer = CorruptBuffer(m)
           \/ \E names \in SheetNameLists :
                \E sheets \in [KeySet(names) -> Worksheets] :
                  buffer = Workbook(names, sheets)
        /\ data = <<>>
        /\ columnName = ""
     \/ /\ fn = "validateExcelData"
        /\ buffer = NoBuffer
        /\ data \in SeqsUpTo(Rows, MaxRows)
        /\ columnName = ""
     \/ /\ fn = "getColumnStatistics"
        /\ buffer = NoBuffer
        /\ data \in SeqsUpTo(Rows, MaxRows)
        /\ columnName \in ColumnNames

CallProcessExcelFile ==
  /\ fn = "processExcelFile"
  /\ result = NoReturn
  /\ result' = processExcelFile(buffer)
  /\ UNCHANGED <<fn, buffer, data, columnName, validations, statistics>>
  /\ UNCHANGED serverVars

CallValidateExcelData ==
  /\ fn = "validateExcelData"
  /\ validations = NoReturn
  /\ validations' = validateExcelData(data)
  /\ UNCHANGED <<fn, buffer, data, columnName, result, statistics>>
  /\ UNCHANGED serverVars

CallGetColumnStatistics ==
  /\ fn = "getColumnStatistics"
  /\ statistics = NoReturn
  /\ statistics' = Return(getColumnStatistics(data, columnName))
  /\ UNCHANGED <<fn, buffer, data, columnName, result, validations>>
  /\ UNCHANGED serverVars

Next ==
  \/ CallProcessExcelFile
  \/ CallValidateExcelData
  \/ CallGetColumnStatistics

Spec == Init /\ [][Next]_vars

(***************************************************************************)
(* The auth router (routes/auth.js) over the User collection               *)
(* (models/User.js), behind the adminAuth middleware for the admin routes. *)
(* Each handler is one step: the login handler reads the collection once,  *)
(* and what it answers is decided by what that read returns.               *)
(***************************************************************************)
MinPasswordLength == 6

\* the email addresses and passwords that requests carry
Emails == {"ann@x.io", "Ann@X.io", "bob@x.io", "ann"}
Passwords == {"hunter22", "abc12"}
AdminEmail == "root@x.io"
AdminPassword == "s3cret-root"

\* emailRegex.test(email)
EmailMatches(email) == email # "ann"

\* email.toLowerCase()
ToLowerCase(email) == IF email = "Ann@X.io" THEN "ann@x.io" ELSE email

\* password.length
Length(password) ==
  CASE password = "abc12" -> 5
    [] password = "hunter22" -> 8
    [] password = AdminPassword -> 11
    [] OTHER -> 0

\* bcrypt.hash(password, salt) and bcrypt.compare(candidate, hash)
Hash(password) == [bcrypt |-> password]
Compare(candidatePassword, hash) == hash.bcrypt = candidatePassword

\* new User({...}) as user.save() stores it
UserDoc(id, email, password, role, status) ==
  [id |-> id, email |-> email, password |-> Hash(password), role |-> role,
   status |-> status, approvedBy |-> 0]

\* User.findOne({ email }) and User.findById(id): the documents found
FindUserByEmail(email) == {u \in users : u.email = email}
FindUserById(id) == {u \in users : u.id = id}

\* the tokens a request can carry: none (0), one that does not verify (-1),
\* or one that login issued, whose payload is the user id
RequestTokens == {0, -1} \cup tokens

\* adminAuth: the status it answers with, 0 when it calls next()
AdminAuth(token) ==
  IF token = 0 THEN 401
  ELSE IF token \notin tokens THEN 401
  ELSE IF FindUserById(token) = {} THEN 401
  ELSE IF (CHOOSE u \in FindUserById(token) : TRUE).role # "admin" THEN 403
  ELSE 0

\* what a handler of the auth router answers, with the credentials the
\* request carried
AuthResponse(kind, status, email, subject, token) ==
  [kind |-> kind, status |-> status, email |-> email, subject |-> subject,
   token |-> token, password |-> ""]

\* router.post('/register')
Register(email, password) ==
  /\ nextId.user <= MaxUsers
  /\ IF ~EmailMatches(email)
     THEN /\ response' = AuthResponse("register", 400, email, 0, 0)
          /\ UNCHANGED <<users, nextId>>
     ELSE IF FindUserByEmail(ToLowerCase(email)) # {}
     THEN /\ response' = AuthResponse("register", 400, email, 0, 0)
          /\ UNCHANGED <<users, nextId>>
     ELSE IF Length(password) < MinPasswordLength
     THEN /\ response' = AuthResponse("register", 400, email, 0, 0)
          /\ UNCHANGED <<users, nextId>>
     ELSE /\ users' = users \cup {UserDoc(nextId.user, ToLowerCase(email),
                                          password, "user", "pending")}
          /\ nextId' = [nextId EXCEPT !.user = @ + 1]
          /\ response' = AuthResponse("register", 201, ToLowerCase(email),
                                      nextId.user, 0)
  /\ UNCHANGED <<tokens, files, graphs, inflight>>
  /\ UNCHANGED callVars

\* user.status !== 'approved' refuses the login
LoginAllowedUnlessRejected(user) == user.status # "rejected"

LoginAllowed(user) == user.status = "approved"

\* router.post('/login')
Login(email, password) ==
  LET normalizedEmail == ToLowerCase(email)
      found == FindUserByEmail(normalizedEmail)
      answer(status, subject, token) ==
        [AuthResponse("login", status, normalizedEmail, subject, token)
           EXCEPT !.password = password]
  IN /\ IF found = {}
        THEN /\ response' = answer(401, 0, 0)
             /\ UNCHANGED tokens
        ELSE LET user == CHOOSE u \in found : TRUE
             IN IF ~LoginAllowed(user)
                THEN /\ response' = answer(403, user.id, 0)
                     /\ UNCHANGED tokens
                ELSE IF ~Compare(password, user.password)
                THEN /\ response' = answer(401, user.id, 0)
                     /\ UNCHANGED tokens
                ELSE /\ tokens' = tokens \cup {user.id}
                     /\ response' = answer(200, user.id, user.id)
     /\ UNCHANGED <<users, files, graphs, nextId, inflight>>
     /\ UNCHANGED callVars

\* router.post('/approve-user/:userId') and router.post('/reject-user/:userId')
SetUserStatus(kind, token, userId, status) ==
  /\ IF AdminAuth(token) # 0
     THEN /\ response' = AuthResponse(kind, AdminAuth(token), "", userId, 0)
          /\ UNCHANGED users
     ELSE IF FindUserById(userId) = {}
     THEN /\ response' = AuthResponse(kind, 404, "", userId, 0)
          /\ UNCHANGED users
     ELSE LET user == CHOOSE u \in FindUserById(userId) : TRUE
              saved == IF status = "approved"
                       THEN [user EXCEPT !.status = status, !.approvedBy = token]
                       ELSE [user EXCEPT !.status = status]
          IN /\ users' = (users \ {user}) \cup {saved}
             /\ response' = AuthResponse(kind, 200, user.email, userId, 0)
  /\ UNCHANGED <<tokens, files, graphs, nextId, inflight>>
  /\ UNCHANGED callVars

ApproveUser(token, userId) ==
  SetUserStatus("approve-user", token, userId, "approved")

RejectUser(token, userId) ==
  SetUserStatus("reject-user", token, userId, "rejected")

\* router.delete('/users/:userId')
DeleteUser(token, userId) ==
  /\ IF AdminAuth(token) # 0
     THEN /\ response' = AuthResponse("delete-user", AdminAuth(token), "",
                                      userId, 0)
          /\ UNCHANGED users
     ELSE IF FindUserById(userId) = {}
     THEN /\ response' = AuthResponse("delete-user", 404, "", userId, 0)
          /\ UNCHANGED users
     ELSE LET user == CHOOSE u \in FindUserById(userId) : TRUE
          IN IF user.role = "admin"
             THEN /\ response' = AuthResponse("delete-user", 403, user.email,
                                              userId, 0)
                  /\ UNCHANGED users
             ELSE /\ users' = users \ {user}
                  /\ response' = AuthResponse("delete-user", 200, user.email,
                                              userId, 0)
  /\ UNCHANGED <<tokens, files, graphs, nextId, inflight>>
  /\ UNCHANGED callVars

\* the collection holds one approved administrator; accounts are registered
\* from there
InitAuth ==
  /\ NoCall
  /\ users = {UserDoc(1, AdminEmail, AdminPassword, "admin", "approved")}
  /\ tokens = {}
  /\ files = {}
  /\ graphs = {}
  /\ nextId = [user |-> 2, file |-> 1, graph |-> 1]
  /\ inflight = {}
  /\ response = NoResponse

NextAuth ==
  \/ \E email \in Emails, password \in Passwords : Register(email, password)
  \/ \E email \in Emails \cup {AdminEmail},
        password \in Passwords \cup {AdminPassword} : Login(email, password)
  \/ \E token \in RequestTokens, userId \in 1..MaxUsers :
       ApproveUser(token, userId)
  \/ \E token \in RequestTokens, userId \in 1..MaxUsers :
       RejectUser(token, userId)
  \/ \E token \in RequestTokens, userId \in 1..MaxUsers :
       DeleteUser(token, userId)

SpecAuth == InitAuth /\ [][NextAuth]_vars

(***************************************************************************)
(* The excel router (routes/excel.js) over the ExcelFile and Graph         *)
(* collections.  A handler that awaits the store twice is two steps, with  *)
(* the request in flight between them; the other handlers are one step.    *)
(***************************************************************************)
\* what a response shows or removes of a stored document
FileRef(f) == [coll |-> "ExcelFile", id |-> f.id, user |-> f.user]
GraphRef(g) == [coll |-> "Graph", id |-> g.id, user |-> g.user]

\* a response of the router: the requester, the documents it returns and
\* the documents the request deleted
StoreResponse(kind, status, user, returned, deleted) ==
  [kind |-> kind, status |-> status, user |-> user, returned |-> returned,
   deleted |-> deleted]

\* a handler can await the store while fewer than MaxInflight others do
CanAwait(req) == Cardinality(inflight) < MaxInflight /\ req \notin inflight

\* the req.user.userId of the requests
UserIds == {u.id : u \in users}

\* an upload request: its user, whether it carries a file part, whether
\* multer's fileFilter and size limit let the file through, the bytes, and
\* whether the store accepts the document made of them
UploadRequest(userId, file, mimetype, size, buf, storable) ==
  [user |-> userId, file |-> file, mimetype |-> mimetype, size |-> size,
   buffer |-> buf, storable |-> storable]

GoodBuffer ==
  Workbook(<<"Sheet1">>,
           [name \in {"Sheet1"} |->
              Worksheet(<< <<Prop("a", CellNumber(Fin(1)))>>,
                           <<Prop("b", CellString("x")),
                             Prop("a", CellBoolean(TRUE))>> >>)])

UnreadableBuffer ==
  Workbook(<<"Sheet1">>, [name \in {"Sheet1"} |-> BadWorksheet("Bad range")])

UploadRequests(userId) ==
  {UploadRequest(userId, TRUE, "xlsx", "ok", GoodBuffer, TRUE),
   UploadRequest(userId, TRUE, "xlsx", "ok", GoodBuffer, FALSE),
   UploadRequest(userId, TRUE, "xlsx", "ok", UnreadableBuffer, TRUE),
   UploadRequest(userId, TRUE, "xlsx", "ok",
                 CorruptBuffer("Unsupported file"), TRUE),
   UploadRequest(userId, TRUE, "xlsx", "large", GoodBuffer, TRUE),
   UploadRequest(userId, TRUE, "pdf", "ok",
                 CorruptBuffer("Unsupported file"), TRUE),
   UploadRequest(userId, FALSE, "", "ok", NoBuffer, TRUE)}

\* upload.single('file'): multer passes an error to the error middleware
\* for a file its fileFilter or its fileSize limit refuses
MulterRejectsType(req) == req.file /\ req.mimetype # "xlsx"

MulterRejects(req) == req.file /\ (req.mimetype # "xlsx" \/ req.size # "ok")

\* the answer to an upload
UploadResponse(status, req, returned, message, error, body) ==
  [kind |-> "upload", status |-> status, user |-> req.user,
   returned |-> returned, deleted |-> {}, request |-> req,
   message |-> message, error |-> error, body |-> body]

\* the validations and the statistics of the sheets, as the handler maps them
SheetValidations(sheets) ==
  [i \in 1..Len(sheets) |->
     [sheetName |-> sheets[i].sheetName,
      validation |-> validateExcelData(sheets[i].data).value]]

SheetStatistics(sheets) ==
  [i \in 1..Len(sheets) |->
     [sheetName |-> sheets[i].sheetName,
      columns |-> [header \in KeySet(sheets[i].headers) |->
                     getColumnStatistics(sheets[i].data, header)]]]

\* router.post('/upload', auth, upload.single('file'), ...)
Upload(req) ==
  LET processed == processExcelFile(req.buffer)
      creates == /\ req.file /\ ~MulterRejects(req)
                 /\ ~processed.threw /\ processed.value.success
                 /\ req.storable
      newExcelFile == [id |-> nextId.file, user |-> req.user,
                       fileName |-> "book.xlsx",
                       sheets |-> processed.value.data]
  IN /\ creates => nextId.file <= MaxFiles
     /\ IF MulterRejects(req)
        THEN response' = UploadResponse(500, req, {}, "Something went wrong!",
                                        "", <<>>)
        ELSE IF ~req.file
        THEN response' = UploadResponse(400, req, {}, "No file uploaded",
                                        "", <<>>)
        ELSE IF processed.threw
        THEN response' = UploadResponse(500, req, {}, "Error processing file",
                                        processed.message, <<>>)
        ELSE IF ~processed.value.success
        THEN response' = UploadResponse(400, req, {}, "Error processing file",
                                        processed.value.error, <<>>)
        ELSE IF ~req.storable
        THEN response' = UploadResponse(500, req, {}, "Error processing file",
                                        "save failed", <<>>)
        ELSE response' = UploadResponse(200, req, {FileRef(newExcelFile)},
               "", "",
               [sheets |-> processed.value.data,
                validations |-> SheetValidations(processed.value.data),
                statistics |-> SheetStatistics(processed.value.data),
                totalSheets |-> processed.value.totalSheets])
     /\ IF creates
        THEN /\ files' = files \cup {newExcelFile}
             /\ nextId' = [nextId EXCEPT !.file = @ + 1]
        ELSE UNCHANGED <<files, nextId>>
     /\ UNCHANGED <<users, tokens, graphs, inflight>>
     /\ UNCHANGED callVars

\* ExcelFile.findOne({ _id, user }): the documents found
FindFile(fileId, userId) == {f \in files : f.id = fileId /\ f.user = userId}

\* router.get('/files')
ListFiles(userId) ==
  /\ response' = StoreResponse("list-files", 200, userId,
                        {FileRef(f) : f \in {g \in files : g.user = userId}}, {})
  /\ UNCHANGED <<users, tokens, files, graphs, nextId, inflight>>
  /\ UNCHANGED callVars

\* router.get('/files/:id')
GetFile(userId, id) ==
  /\ IF FindFile(id, userId) = {}
     THEN response' = StoreResponse("get-file", 404, userId, {}, {})
     ELSE response' = StoreResponse("get-file", 200, userId,
                        {FileRef(f) : f \in FindFile(id, userId)}, {})
  /\ UNCHANGED <<users, tokens, files, graphs, nextId, inflight>>
  /\ UNCHANGED callVars

\* router.delete('/files/:id'), up to ExcelFile.findOneAndDelete
DeleteFileStart(userId, id) ==
  /\ IF FindFile(id, userId) = {}
     THEN /\ response' = StoreResponse("delete-file", 404, userId, {}, {})
          /\ UNCHANGED <<files, inflight>>
     ELSE LET file == CHOOSE f \in FindFile(id, userId) : TRUE
              req == [kind |-> "delete-file", user |-> userId,
                      file |-> FileRef(file)]
          IN /\ CanAwait(req)
             /\ files' = files \ {file}
             /\ inflight' = inflight \cup {req}
             /\ UNCHANGED response
  /\ UNCHANGED <<users, tokens, graphs, nextId>>
  /\ UNCHANGED callVars

\* router.delete('/files/:id'), from Graph.deleteMany({ fileId: file._id })
DeleteFileFinish(req) ==
  /\ req.kind = "delete-file"
  /\ LET removed == {g \in graphs : g.fileId = req.file.id}
     IN /\ graphs' = graphs \ removed
        /\ response' = StoreResponse("delete-file", 200, req.user, {},
                         {req.file} \cup {GraphRef(g) : g \in removed})
  /\ inflight' = inflight \ {req}
  /\ UNCHANGED <<users, tokens, files, nextId>>
  /\ UNCHANGED callVars

\* ExcelFile.findOne({ _id: fileId, user }) of save-graph
AssociatedFileOfAnyUser(fileId, userId) == {f \in files : f.id = fileId}

AssociatedFile(fileId, userId) ==
  {f \in files : f.id = fileId /\ f.user = userId}

\* the sheetName a save-graph body can name
SheetNamesOfGraphs == {"Sheet1"}

\* router.post('/save-graph'), up to ExcelFile.findOne for the associated file
SaveGraphStart(userId, complete, fileId, sheetName) ==
  /\ IF ~complete
     THEN /\ response' = StoreResponse("save-graph", 400, userId, {}, {})
          /\ UNCHANGED inflight
     ELSE IF AssociatedFile(fileId, userId) = {}
     THEN /\ response' = StoreResponse("save-graph", 400, userId, {}, {})
          /\ UNCHANGED inflight
     ELSE LET req == [kind |-> "save-graph", user |-> userId,
                      fileId |-> fileId, sheetName |-> sheetName]
          IN /\ CanAwait(req)
             /\ inflight' = inflight \cup {req}
             /\ UNCHANGED response
  /\ UNCHANGED <<users, tokens, files, graphs, nextId>>
  /\ UNCHANGED callVars

\* router.post('/save-graph'), from new Graph({...}) and graph.save(), which
\* stores the graph or rejects it
SaveGraphFinish(req, saved) ==
  /\ req.kind = "save-graph"
  /\ saved => nextId.graph <= MaxGraphs
  /\ LET graph == [id |-> nextId.graph, user |-> req.user,
                   fileId |-> req.fileId, sheetName |-> req.sheetName]
     IN IF saved
        THEN /\ graphs' = graphs \cup {graph}
             /\ nextId' = [nextId EXCEPT !.graph = @ + 1]
             /\ response' = StoreResponse("save-graph", 201, req.user,
                                          {GraphRef(graph)}, {})
        ELSE /\ response' = StoreResponse("save-graph", 500, req.user, {}, {})
             /\ UNCHANGED <<graphs, nextId>>
  /\ inflight' = inflight \ {req}
  /\ UNCHANGED <<users, tokens, files>>
  /\ UNCHANGED callVars

\* router.get('/graphs'): the user's graphs, each populated with its file
ListGraphs(userId) ==
  /\ LET found == {g \in graphs : g.user = userId}
              populated == {f \in files : \E g \in found : g.fileId = f.id}
          IN response' = StoreResponse("list-graphs", 200, userId,
                           {GraphRef(g) : g \in found}
                             \cup {FileRef(f) : f \in populated}, {})
  /\ UNCHANGED <<users, tokens, files, graphs, nextId, inflight>>
  /\ UNCHANGED callVars

\* router.get('/graphs/:id'), up to Graph.findOne
GetGraphStart(userId, id) ==
  /\ IF {g \in graphs : g.id = id /\ g.user = userId} = {}
     THEN /\ response' = StoreResponse("get-graph", 404, userId, {}, {})
          /\ UNCHANGED inflight
     ELSE LET req == [kind |-> "get-graph", user |-> userId,
                      graph |-> CHOOSE g \in graphs :
                                  g.id = id /\ g.user = userId]
          IN /\ CanAwait(req)
             /\ inflight' = inflight \cup {req}
             /\ UNCHANGED response
  /\ UNCHANGED <<users, tokens, files, graphs, nextId>>
  /\ UNCHANGED callVars

\* router.get('/graphs/:id'), from ExcelFile.findById(graph.fileId)
GetGraphFinish(req) ==
  /\ req.kind = "get-graph"
  /\ LET found == {f \in files : f.id = req.graph.fileId}
     IN IF found = {}
        THEN response' = StoreResponse("get-graph", 404, req.user, {}, {})
        ELSE LET file == CHOOSE f \in found : TRUE
             IN IF \A i \in 1..Len(file.sheets) :
                     file.sheets[i].sheetName # req.graph.sheetName
                THEN response' = StoreResponse("get-graph", 404, req.user,
                                               {}, {})
                ELSE response' = StoreResponse("get-graph", 200, req.user,
                                   {GraphRef(req.graph), FileRef(file)}, {})
  /\ inflight' = inflight \ {req}
  /\ UNCHANGED <<users, tokens, files, graphs, nextId>>
  /\ UNCHANGED callVars

\* router.delete('/graphs/:id')
DeleteGraph(userId, id) ==
  /\ IF {g \in graphs : g.id = id /\ g.user = userId} = {}
     THEN /\ response' = StoreResponse("delete-graph", 404, userId, {}, {})
          /\ UNCHANGED graphs
     ELSE LET graph == CHOOSE g \in graphs : g.id = id /\ g.user = userId
          IN /\ graphs' = graphs \ {graph}
             /\ response' = StoreResponse("delete-graph", 200, userId, {},
                                          {GraphRef(graph)})
  /\ UNCHANGED <<users, tokens, files, nextId, inflight>>
  /\ UNCHANGED callVars

\* two approved users hold a token each; the collections are empty
InitStore ==
  /\ NoCall
  /\ users = {UserDoc(1, "ann@x.io", "hunter22", "user", "approved"),
              UserDoc(2, "bob@x.io", "hunter22", "user", "approved")}
  /\ tokens = {1, 2}
  /\ files = {}
  /\ graphs = {}
  /\ nextId = [user |-> 3, file |-> 1, graph |-> 1]
  /\ inflight = {}
  /\ response = NoResponse

NextStore ==
  \/ \E userId \in UserIds : \E req \in UploadRequests(userId) : Upload(req)
  \/ \E userId \in UserIds : ListFiles(userId)
  \/ \E userId \in UserIds, id \in 1..MaxFiles : GetFile(userId, id)
  \/ \E userId \in UserIds, id \in 1..MaxFiles : DeleteFileStart(userId, id)
  \/ \E req \in inflight : DeleteFileFinish(req)
  \/ \E userId \in UserIds, complete \in BOOLEAN, fileId \in 1..MaxFiles,
        sheetName \in SheetNamesOfGraphs :
       SaveGraphStart(userId, complete, fileId, sheetName)
  \/ \E req \in inflight, saved \in BOOLEAN : SaveGraphFinish(req, saved)
  \/ \E userId \in UserIds : ListGraphs(userId)
  \/ \E userId \in UserIds, id \in 1..MaxGraphs : GetGraphStart(userId, id)
  \/ \E req \in inflight : GetGraphFinish(req)
  \/ \E userId \in UserIds, id \in 1..MaxGraphs : DeleteGraph(userId, id)

SpecStore == InitStore /\ [][NextStore]_vars

(***************************************************************************)
(* Vocabulary of the properties.                                           *)
(***************************************************************************)
Returned(r) == r.message # "pending"

Processed == fn = "processExcelFile" /\ Returned(result)
Validated == fn = "validateExcelData" /\ Returned(validations)
Analysed == fn = "getColumnStatistics" /\ Returned(statistics)

\* the processExcelFile call returned success:true
Succeeded == Processed /\ ~result.threw /\ result.value.success

\* the shapes of the value getColumnStatistics returned
IsNullResult(r) == "t" \in DOMAIN r
IsNumericResult(r) == DOMAIN r = {"min", "max", "average", "sum", "count"}
IsCategoricalResult(r) == DOMAIN r = {"uniqueValues", "count", "type"}

\* row i of data holds a value other than undefined under columnName
HasValue(i) ==
  \E j \in 1..Len(data[i]) :
    data[i][j].k = columnName /\ data[i][j].v # Undefined

\* the rows that contribute to the column, and what they contribute
Contributing == {i \in 1..Len(data) : HasValue(i)}
Raw(i) == Get(data[i], columnName)
Coerced(i) == ToNumber(Raw(i))

\* the raw values of the column, undefined ones included, row by row
Column == [i \in 1..Len(data) |-> Raw(i)]

\* the total of the coerced values of the rows in P
RECURSIVE Total(_)
Total(P) ==
  IF P = {} THEN Fin(0)
  ELSE LET p == CHOOSE q \in P : TRUE
       IN Add(Coerced(p), Total(P \ {p}))

AllFinite == \A i \in Contributing : Coerced(i).k = "fin"

(***************************************************************************)
(* C1: every sheet emitted by processExcelFile has rowCount equal to the   *)
(* length of its data and columnCount equal to the length of its headers,  *)
(* whatever its rows are.                                                  *)
(***************************************************************************)
C1_CountsMatchDataAndHeaders ==
  Succeeded =>
    \A i \in 1..Len(result.value.data) :
      LET sheet == result.value.data[i]
      IN /\ sheet.rowCount = Len(sheet.data)
         /\ sheet.columnCount = Len(sheet.headers)

\* a sheet whose first row is empty and whose second row has two keys
C1_Witness ==
  /\ Succeeded
  /\ \E i \in 1..Len(result.value.data) :
       LET sheet == result.value.data[i]
       IN /\ Len(sheet.data) = 2
          /\ Len(sheet.data[1]) = 0
          /\ Len(sheet.data[2]) = 2
          /\ sheet.rowCount = 2
          /\ sheet.columnCount = 0

(***************************************************************************)
(* C2: getColumnStatistics returns null if and only if no row has a value  *)
(* other than undefined for the header, and every other result has         *)
(* count >= 1.                                                             *)
(***************************************************************************)
C2_NullIffNoValue ==
  Analysed =>
    /\ IsNullResult(statistics.value) <=> Contributing = {}
    /\ ~IsNullResult(statistics.value) => statistics.value.count >= 1

\* null for rows that exist, one of them holding the key with undefined
C2_Witness ==
  /\ Analysed
  /\ IsNullResult(statistics.value)
  /\ Len(data) >= 2
  /\ \E i \in 1..Len(data) : \E j \in 1..Len(data[i]) :
       data[i][j].k = columnName /\ data[i][j].v = Undefined

(***************************************************************************)
(* C3: the numeric branch is taken if and only if every value of the       *)
(* column other than undefined converts to a number that is not NaN; one   *)
(* value that does not makes the whole result categorical ([1, "x", 3]),   *)
(* and no result mixes the numeric and the categorical fields.             *)
(***************************************************************************)
C3_AllOrNothingBranch ==
  (Analysed /\ ~IsNullResult(statistics.value)) =>
    /\ IsNumericResult(statistics.value)
         <=> \A i \in Contributing : Coerced(i).k # "nan"
    /\ IsNumericResult(statistics.value) \/ IsCategoricalResult(statistics.value)
    /\ Column = <<CellNumber(Fin(1)), CellString("x"), CellNumber(Fin(3))>>
         => statistics.value =
              [uniqueValues |-> <<CellNumber(Fin(1)), CellString("x"),
                                  CellNumber(Fin(3))>>,
               count |-> 3,
               type |-> "categorical"]

C3_Witness ==
  /\ Analysed
  /\ Column = <<CellNumber(Fin(1)), CellString("x"), CellNumber(Fin(3))>>
  /\ IsCategoricalResult(statistics.value)

(***************************************************************************)
(* C4 as stated: in the numeric branch min is the smallest and max the     *)
(* largest coerced value, sum their total from zero, count their number,   *)
(* average = sum / count, so that min <= average <= max and                *)
(* average * count = sum.                                                  *)
(***************************************************************************)
NumericFieldsAreRight ==
  LET r == statistics.value
  IN /\ \E i \in Contributing : r.min = Coerced(i)
     /\ \A i \in Contributing : Leq(r.min, Coerced(i))
     /\ \E i \in Contributing : r.max = Coerced(i)
     /\ \A i \in Contributing : Leq(Coerced(i), r.max)
     /\ r.sum = Total(Contributing)
     /\ r.count = Cardinality(Contributing)
     /\ r.average = Div(r.sum, r.count)
     /\ Column = <<CellNumber(Fin(1)), CellNumber(Fin(2)), CellNumber(Fin(3))>>
          => r = [min |-> Fin(1), max |-> Fin(3), sum |-> Fin(6),
                  average |-> Fin(2), count |-> 3]

C4_AsStated ==
  (Analysed /\ IsNumericResult(statistics.value)) =>
    LET r == statistics.value
    IN /\ NumericFieldsAreRight
       /\ Leq(r.min, r.average)
       /\ Leq(r.average, r.max)
       /\ NumEq(Mul(r.average, r.count), r.sum)

(***************************************************************************)
(* C4 amended: the five fields are as stated; min <= average <= max holds  *)
(* when every coerced value is finite, and average * count = sum when,     *)
(* moreover, count divides sum.  A column that holds both "Infinity" and   *)
(* "-Infinity" is numeric with sum and average NaN.                        *)
(***************************************************************************)
C4_NumericStatistics ==
  (Analysed /\ IsNumericResult(statistics.value)) =>
    LET r == statistics.value
    IN /\ NumericFieldsAreRight
       /\ AllFinite => Leq(r.min, r.average) /\ Leq(r.average, r.max)
       /\ (AllFinite /\ r.sum.n % r.count = 0)
            => NumEq(Mul(r.average, r.count), r.sum)
       /\ (\E i, j \in Contributing :
             Coerced(i).k = "inf" /\ Coerced(j).k = "ninf")
            => r.sum = NaN /\ r.average = NaN

\* a numeric column of three values, one coerced from a string, one row
\* contributing nothing, whose average is not one of the values
C4_Witness ==
  /\ Analysed
  /\ IsNumericResult(statistics.value)
  /\ statistics.value.count = 2
  /\ Len(data) = 3
  /\ \E i \in Contributing : Raw(i).t = "string"
  /\ AllFinite
  /\ statistics.value.average.d = 2

(***************************************************************************)
(* C5: in the categorical branch uniqueValues holds exactly the distinct   *)
(* raw values of the column other than undefined, each once; count is the  *)
(* number of such values, not of the distinct ones; type is "categorical". *)
(***************************************************************************)
C5_CategoricalStatistics ==
  (Analysed /\ IsCategoricalResult(statistics.value)) =>
    LET r == statistics.value
    IN /\ {r.uniqueValues[j] : j \in 1..Len(r.uniqueValues)}
            = {Raw(i) : i \in Contributing}
       /\ \A j, l \in 1..Len(r.uniqueValues) :
            j # l => r.uniqueValues[j] # r.uniqueValues[l]
       /\ r.count = Cardinality(Contributing)
       /\ r.count >= Len(r.uniqueValues)
       /\ r.type = "categorical"
       /\ Column = <<CellString("a"), CellString("b"), CellString("a")>>
            => /\ {r.uniqueValues[j] : j \in 1..Len(r.uniqueValues)}
                    = {CellString("a"), CellString("b")}
               /\ r.count = 3

C5_Witness ==
  /\ Analysed
  /\ Column = <<CellString("a"), CellString("b"), CellString("a")>>
  /\ IsCategoricalResult(statistics.value)
  /\ statistics.value.count = 3
  /\ Len(statistics.value.uniqueValues) = 2

(***************************************************************************)
(* C6: isConsistent is true if and only if every row has as many keys as   *)
(* the first row; it is true for 0 rows and for 1 row; changing one row of *)
(* a uniform sequence (of two rows or more) to another number of keys      *)
(* makes it false; key names and values are not compared.                  *)
(***************************************************************************)
\* d with row i replaced by row
WithRow(d, i, row) == [d EXCEPT ![i] = row]

Uniform(d) == \A i \in 1..Len(d) : Len(d[i]) = Len(d[1])

C6_ConsistentIffUniformKeyCount ==
  Validated =>
    /\ validations.value.isConsistent <=> Uniform(data)
    /\ Len(data) <= 1 => validations.value.isConsistent
    /\ (Uniform(data) /\ Len(data) >= 2) =>
         \A i \in 1..Len(data) : \A row \in Rows :
           Len(row) # Len(data[i]) =>
             ~validateExcelData(WithRow(data, i, row)).value.isConsistent

\* rows of one key each under different names: consistent
C6_Witness ==
  /\ Validated
  /\ Len(data) >= 2
  /\ \E i, j \in 1..Len(data) :
       /\ Len(data[i]) = 1
       /\ Len(data[j]) = 1
       /\ data[i][1].k # data[j][1].k
  /\ validations.value.isConsistent

(***************************************************************************)
(* C7: hasData is true iff the row sequence is not empty, which is iff the *)
(* normalized sheet's rowCount > 0; hasHeaders is true iff the first row   *)
(* exists and has a key; validate([]) is {hasData: false, hasHeaders:      *)
(* false, isConsistent: true}; hasHeaders implies hasData.                 *)
(***************************************************************************)
C7_HasDataAndHasHeaders ==
  /\ Validated =>
       /\ validations.value.hasData <=> Len(data) > 0
       /\ validations.value.hasHeaders <=> (Len(data) > 0 /\ Len(data[1]) > 0)
       /\ validations.value.hasHeaders => validations.value.hasData
       /\ data = <<>> =>
            validations.value = [hasData |-> FALSE, hasHeaders |-> FALSE,
                                 isConsistent |-> TRUE]
  /\ Succeeded =>
       \A i \in 1..Len(result.value.data) :
         LET sheet == result.value.data[i]
         IN validateExcelData(sheet.data).value.hasData <=> sheet.rowCount > 0

C7_Witness ==
  /\ Validated
  /\ data = <<>>
  /\ ~validations.value.hasData
  /\ ~validations.value.hasHeaders
  /\ validations.value.isConsistent

(***************************************************************************)
(* C8: on a successful decode processExcelFile returns success: true, one  *)
(* normalized sheet per sheet of the workbook, in the workbook's order and *)
(* under that sheet's name, and totalSheets equal to the number of sheets; *)
(* a workbook without sheets gives empty data and totalSheets 0.           *)
(***************************************************************************)
\* decoding the buffer and converting each of its sheets succeeds
Decodes ==
  /\ ~buffer.corrupt
  /\ \A i \in 1..Len(buffer.SheetNames) :
       ~buffer.Sheets[buffer.SheetNames[i]].unreadable

C8_OneSheetPerSourceSheet ==
  (Processed /\ Decodes) =>
    /\ ~result.threw
    /\ result.value.success
    /\ DOMAIN result.value = {"success", "data", "totalSheets"}
    /\ Len(result.value.data) = Len(buffer.SheetNames)
    /\ result.value.totalSheets = Len(buffer.SheetNames)
    /\ \A i \in 1..Len(buffer.SheetNames) :
         /\ result.value.data[i].sheetName = buffer.SheetNames[i]
         /\ result.value.data[i].data = buffer.Sheets[buffer.SheetNames[i]].rows
    /\ buffer.SheetNames = <<>> =>
         result.value = [success |-> TRUE, data |-> <<>>, totalSheets |-> 0]

\* two sheets, the first one without rows
C8_Witness ==
  /\ Succeeded
  /\ Len(buffer.SheetNames) = 2
  /\ result.value.totalSheets = 2
  /\ result.value.data[1].sheetName = "Data"
  /\ result.value.data[1].rowCount = 0
  /\ result.value.data[2].sheetName = "Sheet1"
  /\ result.value.data[2].rowCount = 2

(***************************************************************************)
(* C9: processExcelFile never throws; when decoding or normalizing fails   *)
(* it returns {success: false, error: the failure's message} without data  *)
(* or totalSheets, and it returns success: false in that case only.        *)
(***************************************************************************)
\* the message of the failure that ends the call
FailureMessage ==
  IF buffer.corrupt THEN buffer.message
  ELSE LET bad == {i \in 1..Len(buffer.SheetNames) :
                     buffer.Sheets[buffer.SheetNames[i]].unreadable}
           first == CHOOSE i \in bad : \A j \in bad : i <= j
       IN buffer.Sheets[buffer.SheetNames[first]].message

C9_FailureIsReturned ==
  Processed =>
    /\ ~result.threw
    /\ ~result.value.success <=> ~Decodes
    /\ ~result.value.success =>
         result.value = [success |-> FALSE, error |-> FailureMessage]

\* the second sheet of a workbook cannot be converted
C9_Witness ==
  /\ Processed
  /\ ~buffer.corrupt
  /\ Len(buffer.SheetNames) = 2
  /\ ~buffer.Sheets[buffer.SheetNames[1]].unreadable
  /\ buffer.Sheets[buffer.SheetNames[2]].unreadable
  /\ ~result.threw
  /\ result.value = [success |-> FALSE, error |-> "Bad range"]

(***************************************************************************)
(* C10: validateExcelData is total: for every sequence of row records      *)
(* (empty, rows without keys, ragged rows) it returns the three boolean    *)
(* fields hasData, hasHeaders and isConsistent and does not throw.         *)
(***************************************************************************)
C10_ValidateIsTotal ==
  Validated =>
    /\ ~validations.threw
    /\ validations.value \in
         [hasData : BOOLEAN, hasHeaders : BOOLEAN, isConsistent : BOOLEAN]

\* ragged rows, the first one without keys
C10_Witness ==
  /\ Validated
  /\ Len(data) >= 2
  /\ Len(data[1]) = 0
  /\ \E i \in 1..Len(data) : Len(data[i]) = 2
  /\ ~validations.threw
  /\ ~validations.value.isConsistent

(***************************************************************************)
(* C11: headers is the ordered key list of the first row (empty for a      *)
(* sheet without rows); columnTypes has one entry per header, the typeof   *)
(* tag of the first row's value; sheets with the same first row get the    *)
(* same headers and columnTypes whatever their later rows hold.            *)
(***************************************************************************)
C11_HeadersAndTypesFromFirstRow ==
  Succeeded =>
    /\ \A i \in 1..Len(result.value.data) :
         LET sheet == result.value.data[i]
         IN IF Len(sheet.data) = 0
            THEN sheet.headers = <<>> /\ DOMAIN sheet.columnTypes = {}
            ELSE LET first == sheet.data[1]
                 IN /\ sheet.headers = [j \in 1..Len(first) |-> first[j].k]
                    /\ DOMAIN sheet.columnTypes = {first[j].k : j \in 1..Len(first)}
                    /\ \A j \in 1..Len(first) :
                         sheet.columnTypes[first[j].k] = first[j].v.t
    /\ \A i, j \in 1..Len(result.value.data) :
         LET one == result.value.data[i]
             other == result.value.data[j]
         IN (Len(one.data) > 0 /\ Len(other.data) > 0
               /\ one.data[1] = other.data[1])
              => /\ one.headers = other.headers
                 /\ one.columnTypes = other.columnTypes

\* two sheets with the same first row; the second row of one of them has a
\* key the first row lacks and a value of another type under the shared key
C11_Witness ==
  /\ Succeeded
  /\ \E i, j \in 1..Len(result.value.data) :
       LET one == result.value.data[i]
           other == result.value.data[j]
       IN /\ Len(one.data) = 2
          /\ Len(other.data) = 1
          /\ one.data[1] = other.data[1]
          /\ one.headers = <<"a">>
          /\ one.columnTypes["a"] = "number"
          /\ Get(one.data[2], "a").t = "boolean"
          /\ Get(one.data[2], "b") # Undefined

(***************************************************************************)
(* C13: login issues a token for an account only if the account's status   *)
(* is 'approved' when the login is made and the password matches; an       *)
(* account is 'pending' when registered and gets no token before an admin  *)
(* approves it; an account rejected after its approval gets no new token.  *)
(***************************************************************************)
C13_Step ==
  /\ \A id \in tokens' \ tokens :
       \E u \in users : u.id = id /\ u.status = "approved"
  /\ (response'.kind = "login" /\ response'.status = 200) =>
       \E u \in users :
         /\ u.id = response'.token
         /\ u.email = response'.email
         /\ u.status = "approved"
         /\ u.password = Hash(response'.password)
  /\ (response'.kind = "login" /\ response'.status # 200) =>
       /\ response'.token = 0
       /\ tokens' = tokens
  /\ \A u \in users' :
       (\A v \in users : v.id # u.id) => u.status = "pending" /\ u.id \notin tokens'
  /\ \A u \in users :
       (u.status # "approved" /\ response'.kind = "login"
          /\ response'.email = u.email) => response'.status # 200

C13_TokenOnlyWhenApproved == [][C13_Step]_vars

\* an account that got a token while approved is rejected and then refused
C13_Witness ==
  /\ response.kind = "login"
  /\ response.status = 403
  /\ response.subject \in tokens
  /\ \E u \in users : u.id = response.subject /\ u.status = "rejected"


(***************************************************************************)
(* C12: the outcomes of an upload.                                         *)
(***************************************************************************)
\* the request the last response answers carried a file that multer let
\* through and that the decoder refuses
DecodeFails ==
  /\ response.request.file
  /\ response.request.mimetype = "xlsx" /\ response.request.size = "ok"
  /\ ~processExcelFile(response.request.buffer).value.success

\* C12 as stated: an upload whose decoding fails is answered with a 4xx
\* status and the parser's message, and every other upload is answered with
\* a 2xx status.
C12_AsStated ==
  response.kind = "upload" =>
    IF DecodeFails
    THEN /\ response.status \in 400..499
         /\ response.error
              = processExcelFile(response.request.buffer).value.error
    ELSE response.status \in 200..299

\* C12: an upload that passed the auth middleware is answered with 400 and
\* no parser message when it carries no file, with 500 when multer refuses
\* the file (by its type or its size), with 400 and the parser's message
\* when the decoding fails, with 500 when the decoded document cannot be
\* stored, and otherwise with 200 and the sheets, their validations, their
\* statistics and their number, the document being stored for the requester.
C12_UploadOutcomes ==
  response.kind = "upload" =>
    LET req == response.request
        decoded == processExcelFile(req.buffer).value
    IN IF ~req.file
       THEN response.status = 400 /\ response.error = ""
       ELSE IF req.mimetype # "xlsx" \/ req.size # "ok"
       THEN response.status = 500 /\ response.error = ""
       ELSE IF ~decoded.success
       THEN /\ response.status = 400
            /\ response.error = decoded.error
            /\ response.error # ""
       ELSE IF ~req.storable
       THEN response.status = 500
       ELSE /\ response.status = 200
            /\ response.body.sheets = decoded.data
            /\ response.body.totalSheets = Len(decoded.data)
            /\ Len(response.body.validations) = Len(decoded.data)
            /\ Len(response.body.statistics) = Len(decoded.data)
            /\ \A ref \in response.returned : ref.user = req.user

\* a corrupt file was answered with 400 and the parser's message
C12_Witness ==
  /\ response.kind = "upload"
  /\ DecodeFails
  /\ response.status = 400
  /\ response.error = "Unsupported file"


(***************************************************************************)
(* C14: a deleted file leaves no graph behind.                             *)
(***************************************************************************)
\* C14: once a DELETE /files/:id has succeeded and no request is in flight,
\* no stored graph references the deleted file, also when a save-graph for
\* that file is interleaved with the delete.  A graph is saved only for a
\* file that was stored, and a file leaves the store only by a DELETE that
\* succeeds, so the deleted files are the referenced files not stored.
C14_NoGraphOfDeletedFile ==
  inflight = {} => \A g \in graphs : \E f \in files : f.id = g.fileId

(***************************************************************************)
(* C15: a request touches the requester's records only.                    *)
(***************************************************************************)
\* C15: every response returns and deletes documents of its requester only,
\* every graph and every file that leaves its collection is a document of
\* the request that removes it, a save-graph goes on to save only for a
\* file of its requester, and a stored graph never references a file of
\* another user.
C15_Step ==
  /\ response' # NoResponse =>
       \A ref \in response'.returned \cup response'.deleted :
         ref.user = response'.user
  /\ \A g \in graphs \ graphs' :
       g.user = response'.user /\ GraphRef(g) \in response'.deleted
  /\ \A f \in files \ files' :
       \E req \in inflight' \ inflight :
         req.kind = "delete-file" /\ req.file = FileRef(f) /\ req.user = f.user
  /\ \A req \in inflight' \ inflight :
       req.kind = "save-graph" =>
         \E f \in files : f.id = req.fileId /\ f.user = req.user
  /\ \A g \in graphs', f \in files' : f.id = g.fileId => f.user = g.user

C15_OwnRecordsOnly == [][C15_Step]_vars

\* a user's file and the graph made of it are stored, and another user who
\* asked for the graph, or for the deletion of the file, was answered 404
C15_Witness ==
  /\ response.kind \in {"get-graph", "delete-file"}
  /\ response.status = 404
  /\ files # {} /\ graphs # {}
  /\ \A id \in 1..MaxFiles :
       \E f \in files : f.id = id /\ f.user # response.user
  /\ \A id \in 1..MaxGraphs :
       \E g \in graphs : g.id = id /\ g.user # response.user

====
